---- MODULE Spec2Model ----
(***************************************************************************)
(* Model of the agentflow scheduling core:                                 *)
(*   - Task and its state machine          (agentflow/core/task.py)        *)
(*   - TaskScheduler                       (agentflow/core/orchestrator.py)*)
(*   - AgentOrchestrator.execute_project and _execute_tasks_parallel       *)
(*                                         (agentflow/core/orchestrator.py)*)
(*   - EventBus                            (agentflow/core/orchestrator.py)*)
(* The specifications share the state:                                     *)
(*   Spec         a caller applies the Task methods and the scheduler's    *)
(*                methods to Task objects, in any order;                   *)
(*   SchedSpec    a caller drives the TaskScheduler through its methods,   *)
(*                as the unit tests and the scheduler demo do;             *)
(*   QueueSpec    a caller builds Task objects, some with the id of        *)
(*                another or depending on themselves, and queues them;     *)
(*   BusSpec      subscribers and a publisher of an EventBus;              *)
(*   SessionSpec  one execute_project session of the AgentOrchestrator;    *)
(*   LongSessionSpec  a session over a chain of tasks longer than the      *)
(*                iteration ceiling, with fairness.                        *)
(***************************************************************************)
EXTENDS Integers, Sequences, FiniteSets, TLC

(***************************************************************************)
(* Bounds                                                                  *)
(***************************************************************************)
\* number of Task objects of an execute_project session
NumTasks == 3
\* number of Task objects the caller of Spec works with
NumCallerTasks == 1
\* number of Task objects the caller of SchedSpec works with
NumSchedTasks == 2
\* number of Task objects the caller of QueueSpec works with
NumQueueTasks == 3
\* number of events published in BusSpec
MaxEvents == 2
\* number of subscribe calls made in BusSpec
MaxSubscriptions == 2
\* number of Task objects of the session of LongSessionSpec, a chain that
\* needs more rounds than max_iterations
NumChainTasks == 21
\* in Spec, assign_task is not explored once a role's counter has reached
\* MaxLoad (blocking, unblocking and assigning again raises it for ever)
MaxLoad == 1
\* stop_session calls made on one session
MaxStopCalls == 1
\* the items of the project whose items are all eligible in the first round
NumWideTasks == 6
\* the items of each project of two execute_project calls on one orchestrator
NumProjectTasks == 2
\* the plugins created in a PluginRegistry
MaxPlugins == 3
\* the agents created by create_mock_agent, and the tasks given to them
MaxAgents == 2
NumAgentTasks == 3

(***************************************************************************)
(* Program constants                                                       *)
(***************************************************************************)
\* TaskStatus
PENDING == "pending"
READY == "ready"
IN_PROGRESS == "in_progress"
COMPLETED == "completed"
FAILED == "failed"
BLOCKED == "blocked"
CANCELLED == "cancelled"
TaskStatus == {PENDING, READY, IN_PROGRESS, COMPLETED, FAILED, BLOCKED, CANCELLED}

\* AgentRole (the two roles the modelled items use)
PROJECT_MANAGER == "project_manager"
ARCHITECT == "architect"
AgentRole == {PROJECT_MANAGER, ARCHITECT}

\* TaskPriority values
MEDIUM == 2
HIGH == 3

\* TaskScheduler.max_concurrent_tasks as set by __init__
DefaultMaxConcurrentTasks == 3
\* max_iterations in execute_project
max_iterations == 20
\* the cap of the semaphore in _execute_tasks_parallel
MaxParallel == 5
\* EventBus.max_history as set by __init__
DefaultMaxHistory == 1000
\* PluginConfig.priority when not configured
DefaultPluginPriority == 50
\* AgentCapability.max_concurrent_tasks
DefaultAgentCapacity == 3

\* EventType values, as the sequence of their parts
TASK_STARTED == <<"task_", "started">>
TASK_COMPLETED == <<"task_", "completed">>
PROJECT_STARTED == <<"project_", "started">>
EventType == {TASK_STARTED, TASK_COMPLETED, PROJECT_STARTED}
\* the other kinds execute_project and stop_session publish, and task_failed
TASK_FAILED == <<"task_", "failed">>
PROJECT_COMPLETED == <<"project_", "completed">>
SYSTEM_ALERT == <<"system_", "alert">>

\* Python's None
None == "None"
\* the value of datetime.now()
Now == "now"
\* the empty dict {}
EmptyDict == "{}"

(***************************************************************************)
(* Inputs                                                                  *)
(***************************************************************************)
\* agent_id arguments of assign_task / Task.start
AgentIds == {"agent_001"}
\* result arguments of complete_task / Task.complete
Results == {"output"}
\* error messages
Errors == {"error"}
\* reasons given to block / cancel
Reasons == {"reason"}

\* dependency lists n items are created with (create_task(dependencies=...))
NoDeps(n) == [t \in 1..n |-> {}]
Chain(n) == [t \in 1..n |-> IF t > 1 THEN {t - 1} ELSE {}]
FanOut(n) == [t \in 1..n |-> IF t > 1 THEN {1} ELSE {}]
FanIn(n) == [t \in 1..n |-> IF t = n THEN 1..(n - 1) ELSE {}]
Cycle(n) == [t \in 1..n |-> {(t % n) + 1}]
DependencyGraphs(n) == {NoDeps(n), Chain(n), FanOut(n), FanIn(n), Cycle(n)}

\* roles n items are created with
RoleAssignments(n) ==
    { [t \in 1..n |-> PROJECT_MANAGER],
      [t \in 1..n |-> IF t = 1 THEN PROJECT_MANAGER ELSE ARCHITECT] }

\* priorities n items are created with
PriorityAssignment(n) == [t \in 1..n |-> IF t % 2 = 0 THEN HIGH ELSE MEDIUM]

\* event patterns given to subscribe: an exact kind, the wildcard "*", and
\* the prefix patterns "task_*" and "project_*"
STAR == <<"*">>
Patterns == {TASK_COMPLETED, STAR, <<"task_", "*">>, <<"project_", "*">>}
\* callbacks given to subscribe: one that returns and one that raises
Callbacks == {"callback", "failing_callback"}
Raises(callback) == callback = "failing_callback"
\* values the event bus's max_history is configured to
Capacities == {0, 1, DefaultMaxHistory}

\* values the scheduler's ceiling max_concurrent_tasks is configured to
Ceilings == {1, DefaultMaxConcurrentTasks}

(***************************************************************************)
(* State                                                                   *)
(***************************************************************************)
VARIABLES
    \* the Task objects: tasks[t] is the record of the object with task_id t
    tasks,
    \* TaskScheduler
    task_queue, agent_loads, max_concurrent_tasks,
    \* the last call a direct caller made on the scheduler or on a Task:
    \* the method, the task, the value returned, and for get_ready_tasks
    \* the argument, the list returned, and the items returned by the
    \* get_ready_tasks calls made right before it with no other call between
    last_call,
    \* locals of execute_project / _execute_tasks_parallel
    pc, iteration, completed_tasks, ready_tasks, completed_task_ids,
    coroutine, semaphore, execution_results, next_result, session_info,
    \* the number of times the body of the round loop has been entered
    rounds,
    \* the tasks of the current round whose executor call has returned or
    \* raised, in the order in which that happened
    arrived,
    \* EventBus: the subscriptions, one entry per key of the dict
    \* `subscribers` in insertion order, the history, and its capacity
    subscribers, event_history, max_history,
    \* the events published so far, and the callback invocations made so
    \* far, each with the subscription, the event and whether it raised
    published, invocations,
    \* the subscribe calls made so far, in order: the key and the position
    \* in the key's list at which the callback was appended
    subscribed,
    \* the dict execute_project returned
    project_result,
    \* the registered agents: current_tasks and completed_tasks of the agent
    \* of each role
    agent_current_tasks, agent_completed_tasks,
    \* PluginRegistry._plugins in insertion order, plugin i being the i-th
    \* created, and the plugins PluginManager initialized, in the order of
    \* the plugin.initialize() calls
    plugins, initialized_plugins,
    \* the BaseAgent objects created, and the max_concurrent_tasks of the
    \* AgentCapability objects of the module-level dict AGENT_CAPABILITIES
    agents, AGENT_CAPABILITIES,
    \* locals of the running execute_project call: the list decompose_project
    \* returned and the session id; and the locals of the other
    \* execute_project call on the same orchestrator, suspended at an await
    project_tasks, session_id, other_session

schedVars == <<task_queue, agent_loads, max_concurrent_tasks>>
sessVars == <<pc, iteration, completed_tasks, ready_tasks, completed_task_ids,
              coroutine, semaphore, execution_results, next_result,
              session_info, rounds, arrived, project_result>>
busVars == <<subscribers, event_history, max_history, published, invocations,
             subscribed>>
agentVars == <<agent_current_tasks, agent_completed_tasks>>
callVars == <<project_tasks, session_id, other_session>>
\* the state that the steps of the scheduler, of the event bus and of a
\* session leave alone
otherVars == <<agentVars, plugins, initialized_plugins, agents,
               AGENT_CAPABILITIES, callVars>>
vars == <<tasks, schedVars, sessVars, last_call, busVars, otherVars>>

\* the task ids in use
TaskIds == DOMAIN tasks

(***************************************************************************)
(* Task (agentflow/core/task.py)                                           *)
(***************************************************************************)
\* Task(...) as create_task builds it
NewTask(task_id, title, role, priority, deps) ==
    [ task_id |-> task_id,
      title |-> title,
      agent_role |-> role,
      priority |-> priority,
      dependencies |-> deps,
      status |-> PENDING,
      assigned_agent_id |-> None,
      started_at |-> None,
      completed_at |-> None,
      result |-> EmptyDict,
      error_message |-> None,
      block_reason |-> None,
      cancel_reason |-> None ]

\* the outcome of a method: the value returned and the object afterwards
Ret(ok, task) == [ok |-> ok, task |-> task]

\* Task.is_ready: reads the attribute _completed_dependencies, which no code
\* defines, for each dependency of a PENDING task
is_ready(task) ==
    IF task.status # PENDING THEN "False"
    ELSE IF task.dependencies = {} THEN "True"
    ELSE "AttributeError"

\* start, were it to accept a READY task as well
StartAcceptsReady(task, agent_id, now) ==
    IF task.status \notin {PENDING, READY} THEN Ret(FALSE, task)
    ELSE Ret(TRUE, [task EXCEPT !.status = IN_PROGRESS,
                                !.started_at = now,
                                !.assigned_agent_id =
                                    IF agent_id # None THEN agent_id ELSE @])

\* Task.add_dependency
add_dependency(task, task_id) ==
    IF task_id \notin task.dependencies /\ task_id # task.task_id
    THEN Ret(TRUE, [task EXCEPT !.dependencies = @ \cup {task_id}])
    ELSE Ret(FALSE, task)

\* Task.start
start(task, agent_id, now) ==
    IF task.status # PENDING THEN Ret(FALSE, task)
    ELSE Ret(TRUE, [task EXCEPT !.status = IN_PROGRESS,
                                !.started_at = now,
                                !.assigned_agent_id =
                                    IF agent_id # None THEN agent_id ELSE @])

\* Task.complete
complete(task, result, now) ==
    IF task.status # IN_PROGRESS THEN Ret(FALSE, task)
    ELSE Ret(TRUE, [task EXCEPT !.status = COMPLETED,
                                !.completed_at = now,
                                !.result = IF result # None THEN result ELSE @])

\* fail, were it to record the message before it tests the status
FailRecordsMessageFirst(task, error_message, now) ==
    IF task.status \notin {IN_PROGRESS, READY}
    THEN Ret(FALSE, [task EXCEPT !.error_message = error_message])
    ELSE Ret(TRUE, [task EXCEPT !.status = FAILED,
                                !.error_message = error_message,
                                !.completed_at = now])

\* Task.fail
fail(task, error_message, now) ==
    IF task.status \notin {IN_PROGRESS, READY} THEN Ret(FALSE, task)
    ELSE Ret(TRUE, [task EXCEPT !.status = FAILED,
                                !.error_message = error_message,
                                !.completed_at = now])

\* Task.block
block(task, reason) ==
    IF task.status \in {COMPLETED, CANCELLED, FAILED} THEN Ret(FALSE, task)
    ELSE Ret(TRUE, [task EXCEPT !.status = BLOCKED,
                                !.block_reason = reason])

\* Task.unblock
unblock(task) ==
    IF task.status # BLOCKED THEN Ret(FALSE, task)
    ELSE Ret(TRUE, [task EXCEPT !.status =
                                    IF is_ready(task) = "True" THEN READY
                                    ELSE PENDING,
                                !.block_reason = None])

\* Task.cancel
cancel(task, reason, now) ==
    IF task.status \in {COMPLETED, CANCELLED} THEN Ret(FALSE, task)
    ELSE Ret(TRUE, [task EXCEPT !.status = CANCELLED,
                                !.completed_at = now,
                                !.cancel_reason =
                                    IF reason # "" THEN reason ELSE @])

(***************************************************************************)
(* TaskScheduler (agentflow/core/orchestrator.py)                          *)
(***************************************************************************)
\* the sort, were an item put before the items of its own priority
RECURSIVE InsertBeforeEqual(_, _, _)
InsertBeforeEqual(sorted, t, tks) ==
    IF sorted = <<>> THEN <<t>>
    ELSE IF tks[Head(sorted)].priority > tks[t].priority
         THEN <<Head(sorted)>> \o InsertBeforeEqual(Tail(sorted), t, tks)
         ELSE <<t>> \o sorted

\* list.sort(key=lambda t: t.priority.value, reverse=True): a stable sort,
\* here the insertion of `t` behind every item of priority >= its own
RECURSIVE InsertByPriority(_, _, _)
InsertByPriority(sorted, t, tks) ==
    IF sorted = <<>> THEN <<t>>
    ELSE IF tks[Head(sorted)].priority >= tks[t].priority
         THEN <<Head(sorted)>> \o InsertByPriority(Tail(sorted), t, tks)
         ELSE <<t>> \o sorted

RECURSIVE SortByPriority(_, _)
SortByPriority(list, tks) ==
    IF list = <<>> THEN <<>>
    ELSE InsertByPriority(SortByPriority(SubSeq(list, 1, Len(list) - 1), tks),
                          list[Len(list)], tks)

\* dependencies_met, were the dependencies not looked at
DependenciesIgnored(task, completed) == TRUE

\* agent_available, were the comparison <= instead of <
AgentAvailableAtCeiling(task, loads, maxc) ==
    loads[task.agent_role] <= maxc

\* the test of one queued task in the loop of get_ready_tasks
dependencies_met(task, completed) ==
    \A dep_id \in task.dependencies : dep_id \in completed

agent_available(task, loads, maxc) ==
    loads[task.agent_role] < maxc

\* the loop of get_ready_tasks over `queue`: the tasks appended to
\* ready_tasks, in queue order, and the Task objects with their status set
RECURSIVE ReadyLoop(_, _, _, _, _)
ReadyLoop(queue, tks, loads, maxc, completed) ==
    IF queue = <<>> THEN [ready |-> <<>>, tasks |-> tks]
    ELSE LET t == Head(queue)
             hit == /\ tks[t].status = PENDING
                    /\ dependencies_met(tks[t], completed)
                    /\ agent_available(tks[t], loads, maxc)
             tks2 == IF hit THEN [tks EXCEPT ![t].status = READY] ELSE tks
             rest == ReadyLoop(Tail(queue), tks2, loads, maxc, completed)
         IN  [ready |-> IF hit THEN <<t>> \o rest.ready ELSE rest.ready,
              tasks |-> rest.tasks]

\* get_ready_tasks, were the status of the returned tasks left alone
GetReadyTasksKeepsStatus(queue, tks, loads, maxc, completed) ==
    LET r == ReadyLoop(queue, tks, loads, maxc, completed)
    IN  [ready |-> SortByPriority(r.ready, r.tasks), tasks |-> tks]

\* TaskScheduler.get_ready_tasks
get_ready_tasks(queue, tks, loads, maxc, completed) ==
    LET r == ReadyLoop(queue, tks, loads, maxc, completed)
    IN  [ready |-> SortByPriority(r.ready, r.tasks), tasks |-> r.tasks]

\* TaskScheduler.assign_task: the value returned, the Task and the counters
assign_task(task, agent_id, loads, now) ==
    LET r == start(task, agent_id, now)
    IN  IF r.ok
        THEN [ok |-> TRUE, task |-> r.task,
              loads |-> [loads EXCEPT ![task.agent_role] = @ + 1]]
        ELSE [ok |-> FALSE, task |-> r.task, loads |-> loads]

Max(a, b) == IF a >= b THEN a ELSE b

\* complete_task, were the counter decremented whatever complete returns
CompleteTaskAlwaysDecrements(task, result, loads, now) ==
    LET r == complete(task, result, now)
    IN  [ok |-> r.ok, task |-> r.task,
         loads |-> [loads EXCEPT ![task.agent_role] = Max(0, @ - 1)]]

\* complete_task, were the counter left alone
CompleteTaskKeepsLoad(task, result, loads, now) ==
    LET r == complete(task, result, now)
    IN  [ok |-> r.ok, task |-> r.task, loads |-> loads]

\* TaskScheduler.complete_task
complete_task(task, result, loads, now) ==
    LET r == complete(task, result, now)
    IN  IF r.ok
        THEN [ok |-> TRUE, task |-> r.task,
              loads |-> [loads EXCEPT ![task.agent_role] = Max(0, @ - 1)]]
        ELSE [ok |-> FALSE, task |-> r.task, loads |-> loads]

\* what execute_single_task returned for a task: (task, success, result);
\* NoOutcome while it has not returned
NoOutcome == [success |-> FALSE, result |-> None]
\* the executor returned a success payload
Succeeded == [success |-> TRUE, result |-> "output"]
\* the executor returned a failure outcome, as OpenRouterAgent.execute_task
\* does: the dict {"success": False, "error": ...}; no exception is raised
ReturnedFailure == [success |-> TRUE, result |-> "failure_outcome"]
\* the executor raised: (task, False, {"error": str(e)})
Raised == [success |-> FALSE, result |-> "error"]
ExecutorOutcomes == {Succeeded, ReturnedFailure, Raised}

SeqToSet(s) == {s[i] : i \in 1..Len(s)}

\* `task in self.task_queue`: some queued object is the object `t` or
\* compares equal to it (Task is a dataclass: == compares every field)
InQueue(t, queue, tks) ==
    \E i \in 1..Len(queue) : queue[i] = t \/ tks[queue[i]] = tks[t]

\* TaskScheduler.add_task: the value returned and the queue
add_task(t, queue, tks) ==
    IF ~InQueue(t, queue, tks)
    THEN [ok |-> TRUE, queue |-> Append(queue, t)]
    ELSE [ok |-> FALSE, queue |-> queue]

\* the statuses of the queued tasks
QueuedStatuses(queue, tks) == {tks[queue[i]].status : i \in 1..Len(queue)}

\* get_schedule_stats, were the histogram taken over every Task object
\* rather than over the queue
StatsOverAllTasks(queue, tks, loads) ==
    [total_tasks |-> Len(queue),
     status_distribution |->
         [s \in {tks[t].status : t \in DOMAIN tks} |->
             Cardinality({t \in DOMAIN tks : tks[t].status = s})],
     agent_loads |-> loads,
     ready_tasks |->
         Cardinality({i \in 1..Len(queue) : tks[queue[i]].status = READY})]

\* TaskScheduler.get_schedule_stats: the dict returned; the counts of
\* status_distribution have the statuses met in the queue as keys
get_schedule_stats(queue, tks, loads) ==
    [total_tasks |-> Len(queue),
     status_distribution |->
         [s \in QueuedStatuses(queue, tks) |->
             Cardinality({i \in 1..Len(queue) : tks[queue[i]].status = s})],
     agent_loads |-> loads,
     ready_tasks |->
         Cardinality({i \in 1..Len(queue) : tks[queue[i]].status = READY})]

\* the stats of a scheduler that no task was ever added to
NoStats == get_schedule_stats(<<>>, <<>>, <<>>)

Call(op, t, ret) ==
    [op |-> op, task |-> t, ret |-> ret, arg |-> {}, out |-> <<>>,
     earlier |-> {}, stats |-> NoStats]

\* n Task objects as create_task builds them
NewTasks(n) ==
    { [t \in 1..n |-> NewTask(t, "task", r[t], PriorityAssignment(n)[t], g[t])] :
        g \in DependencyGraphs(n), r \in RoleAssignments(n) }

(***************************************************************************)
(* Initial state: the Task objects exist, the scheduler and the            *)
(* orchestrator are freshly constructed, and the scheduler's ceiling has   *)
(* been configured.                                                        *)
(***************************************************************************)
\* project: the number of Task objects, the first ones, that the first
\* execute_project call gets from decompose_project
InitOrchestrator(objects, n, project, ceilings, capacities) ==
    /\ tasks \in objects
    /\ project_tasks = [i \in 1..project |-> i]
    /\ session_id = "session"
    \* no other execute_project call has been made
    /\ other_session = [pc |-> "none"]
    /\ plugins = <<>>
    /\ initialized_plugins = <<>>
    /\ agents = <<>>
    /\ AGENT_CAPABILITIES = [r \in AgentRole |-> DefaultAgentCapacity]
    /\ task_queue = <<>>
    /\ agent_loads = [r \in AgentRole |-> 0]
    /\ max_concurrent_tasks \in ceilings
    /\ last_call = Call("none", 0, TRUE)
    /\ ready_tasks = <<>>
    /\ completed_task_ids = {}
    /\ pc = "idle"
    /\ iteration = 0
    /\ completed_tasks = <<>>
    /\ coroutine = [t \in 1..n |-> "none"]
    /\ semaphore = 0
    /\ execution_results = [t \in 1..n |-> NoOutcome]
    /\ next_result = 0
    /\ session_info = [status |-> None, completed_tasks |-> 0, total_tasks |-> 0]
    /\ rounds = 0
    /\ arrived = <<>>
    /\ subscribed = <<>>
    /\ subscribers = <<>>
    /\ event_history = <<>>
    /\ max_history \in capacities
    /\ published = <<>>
    /\ invocations = <<>>
    /\ project_result = None
    /\ agent_current_tasks = [r \in AgentRole |-> {}]
    /\ agent_completed_tasks = [r \in AgentRole |-> {}]

InitAll(objects, n, ceilings, capacities) ==
    InitOrchestrator(objects, n, n, ceilings, capacities)

InitFrom(objects, n, ceilings) ==
    InitAll(objects, n, ceilings, {DefaultMaxHistory})

InitWith(n, ceilings) == InitFrom(NewTasks(n), n, ceilings)

Init == InitWith(NumCallerTasks, {DefaultMaxConcurrentTasks})

(***************************************************************************)
(* A caller of the TaskScheduler and of the Task methods                   *)
(***************************************************************************)
\* scheduler.add_task(task)
AddTask(t) ==
    /\ LET r == add_task(t, task_queue, tasks)
       IN  /\ task_queue' = r.queue
           /\ last_call' = Call("add_task", t, r.ok)
    /\ UNCHANGED <<tasks, agent_loads, max_concurrent_tasks, sessVars, busVars, otherVars>>

\* scheduler.get_ready_tasks(completed)
GetReadyTasks(completed) ==
    LET r == get_ready_tasks(task_queue, tasks, agent_loads,
                             max_concurrent_tasks, completed)
    IN  /\ tasks' = r.tasks
        /\ last_call' = [Call("get_ready_tasks", 0, TRUE) EXCEPT
                            !.arg = completed, !.out = r.ready,
                            !.earlier =
                                IF last_call.op = "get_ready_tasks"
                                THEN last_call.earlier \cup
                                     SeqToSet(last_call.out)
                                ELSE {}]
        /\ UNCHANGED <<schedVars, sessVars, busVars, otherVars>>

\* scheduler.assign_task(task, agent_id)
AssignTask(t, agent_id) ==
    LET r == assign_task(tasks[t], agent_id, agent_loads, Now)
    IN  /\ tasks' = [tasks EXCEPT ![t] = r.task]
        /\ agent_loads' = r.loads
        /\ last_call' = Call("assign_task", t, r.ok)
        /\ UNCHANGED <<task_queue, max_concurrent_tasks, sessVars, busVars, otherVars>>

\* scheduler.complete_task(task, result)
CompleteTask(t, result) ==
    LET r == complete_task(tasks[t], result, agent_loads, Now)
    IN  /\ tasks' = [tasks EXCEPT ![t] = r.task]
        /\ agent_loads' = r.loads
        /\ last_call' = Call("complete_task", t, r.ok)
        /\ UNCHANGED <<task_queue, max_concurrent_tasks, sessVars, busVars, otherVars>>

\* scheduler.get_schedule_stats()
GetScheduleStats ==
    /\ last_call' =
          [Call("get_schedule_stats", 0, TRUE) EXCEPT
              !.stats = get_schedule_stats(task_queue, tasks, agent_loads)]
    /\ UNCHANGED <<tasks, schedVars, sessVars, busVars, otherVars>>

\* a call of a Task method: the object and the value returned
TaskCall(op, t, r) ==
    /\ tasks' = [tasks EXCEPT ![t] = r.task]
    /\ last_call' = Call(op, t, r.ok)
    /\ UNCHANGED <<schedVars, sessVars, busVars, otherVars>>

\* task.start(agent_id)
TaskStart(t, agent_id) == TaskCall("start", t, start(tasks[t], agent_id, Now))
\* task.complete(result)
TaskComplete(t, result) == TaskCall("complete", t, complete(tasks[t], result, Now))
\* task.fail(error_message)
TaskFail(t, e) == TaskCall("fail", t, fail(tasks[t], e, Now))
\* task.block(reason)
TaskBlock(t, reason) == TaskCall("block", t, block(tasks[t], reason))
\* task.unblock()
TaskUnblock(t) == TaskCall("unblock", t, unblock(tasks[t]))
\* task.cancel(reason)
TaskCancel(t, reason) == TaskCall("cancel", t, cancel(tasks[t], reason, Now))

Next ==
    \/ \E t \in TaskIds : AddTask(t)
    \/ \E c \in SUBSET TaskIds : GetReadyTasks(c)
    \/ \E t \in TaskIds, a \in AgentIds :
          agent_loads[tasks[t].agent_role] < MaxLoad /\ AssignTask(t, a)
    \/ \E t \in TaskIds, r \in Results : CompleteTask(t, r)
    \/ \E t \in TaskIds, a \in AgentIds : TaskStart(t, a)
    \/ \E t \in TaskIds, r \in Results : TaskComplete(t, r)
    \/ \E t \in TaskIds, e \in Errors : TaskFail(t, e)
    \/ \E t \in TaskIds, r \in Reasons : TaskBlock(t, r)
    \/ \E t \in TaskIds : TaskUnblock(t)
    \/ \E t \in TaskIds, r \in Reasons : TaskCancel(t, r)

Spec == Init /\ [][Next]_vars

(***************************************************************************)
(* A caller of the TaskScheduler alone                                     *)
(***************************************************************************)
SchedInit == InitWith(NumSchedTasks, Ceilings)

SchedNext ==
    \/ \E t \in TaskIds : AddTask(t)
    \/ \E c \in SUBSET TaskIds : GetReadyTasks(c)
    \/ \E t \in TaskIds, a \in AgentIds : AssignTask(t, a)
    \/ \E t \in TaskIds, r \in Results : CompleteTask(t, r)
    \/ GetScheduleStats

SchedSpec == SchedInit /\ [][SchedNext]_vars

(***************************************************************************)
(* A caller that builds Task objects, some of them with the task_id of     *)
(* another, and adds them to the queue                                     *)
(***************************************************************************)
\* the task_id values of n objects: all different, or shared by two objects
UniqueIds(n) == [t \in 1..n |-> t]
PairedIds(n) == [t \in 1..n |-> (t + 1) \div 2]

\* n objects Task(task_id=..., title=..., priority=..., dependencies=...):
\* with different ids, without dependencies or each depending on itself;
\* or with paired ids, two objects of one id equal in every field or
\* different in the title
QueueTasks(n) ==
    { [t \in 1..n |-> NewTask(UniqueIds(n)[t], "task", PROJECT_MANAGER,
                              PriorityAssignment(n)[t],
                              IF self THEN {UniqueIds(n)[t]} ELSE {})] :
        self \in BOOLEAN }
    \cup
    { [t \in 1..n |-> NewTask(PairedIds(n)[t],
                              IF same \/ t % 2 = 1 THEN "task" ELSE "other",
                              PROJECT_MANAGER, MEDIUM, {})] :
        same \in BOOLEAN }

QueueInit ==
    InitFrom(QueueTasks(NumQueueTasks), NumQueueTasks,
             {DefaultMaxConcurrentTasks})

\* task.add_dependency(task_id)
AddDependency(t, task_id) ==
    LET r == add_dependency(tasks[t], task_id)
    IN  /\ tasks' = [tasks EXCEPT ![t] = r.task]
        /\ last_call' = [Call("add_dependency", t, r.ok) EXCEPT
                            !.arg = {task_id}]
        /\ UNCHANGED <<schedVars, sessVars, busVars, otherVars>>

\* the ids the caller gives add_dependency: the task's own, and the first
\* object's
DependencyArgs(t) == {tasks[t].task_id, tasks[1].task_id}

\* the sets the caller gives get_ready_tasks: nothing is completed, or the
\* first object's id is
CompletedArgs == {{}, {tasks[1].task_id}}

QueueNext ==
    \/ \E t \in TaskIds : AddTask(t)
    \/ \E c \in CompletedArgs : GetReadyTasks(c)
    \/ \E t \in TaskIds : \E d \in DependencyArgs(t) : AddDependency(t, d)

QueueSpec == QueueInit /\ [][QueueNext]_vars

(***************************************************************************)
(* EventBus (agentflow/core/orchestrator.py)                               *)
(***************************************************************************)
\* pattern.endswith("*")
endswith_star(pattern) == Len(pattern) > 0 /\ pattern[Len(pattern)] = "*"

\* pattern[:-1]
DropLast(pattern) == SubSeq(pattern, 1, Len(pattern) - 1)

\* event_type.startswith(prefix)
startswith(event_type, prefix) ==
    /\ Len(prefix) <= Len(event_type)
    /\ SubSeq(event_type, 1, Len(prefix)) = prefix

\* pattern in self.subscribers
HasKey(subs, pattern) == \E k \in 1..Len(subs) : subs[k].pattern = pattern

\* self.subscribers[pattern], for a key of the dict
CallbacksOf(subs, pattern) ==
    subs[CHOOSE k \in 1..Len(subs) : subs[k].pattern = pattern].callbacks

\* self.subscribers.keys(), in insertion order
Keys(subs) == [k \in 1..Len(subs) |-> subs[k].pattern]

\* EventBus.subscribe: self.subscribers[event_pattern].append(callback)
subscribe(subs, pattern, callback) ==
    IF HasKey(subs, pattern)
    THEN [k \in 1..Len(subs) |->
            IF subs[k].pattern = pattern
            THEN [subs[k] EXCEPT !.callbacks = Append(@, callback)]
            ELSE subs[k]]
    ELSE Append(subs, [pattern |-> pattern, callbacks |-> <<callback>>])

\* event_history[-max_history:]
LastSlice(history, n) ==
    IF n = 0 THEN history
    ELSE SubSeq(history, Max(1, Len(history) - n + 1), Len(history))

\* patterns_to_notify, were every key that ends in "*" notified
PatternsWithoutPrefixTest(subs, event_type) ==
    (IF HasKey(subs, event_type) THEN <<event_type>> ELSE <<>>)
    \o (IF HasKey(subs, STAR) THEN <<STAR>> ELSE <<>>)
    \o SelectSeq(Keys(subs), LAMBDA pattern : endswith_star(pattern))

\* publish: the list patterns_to_notify
patterns_to_notify(subs, event_type) ==
    (IF HasKey(subs, event_type) THEN <<event_type>> ELSE <<>>)
    \o (IF HasKey(subs, STAR) THEN <<STAR>> ELSE <<>>)
    \o SelectSeq(Keys(subs),
                 LAMBDA pattern : /\ endswith_star(pattern)
                                  /\ startswith(event_type, DropLast(pattern)))

\* publish: the two loops over patterns_to_notify and the callbacks of each
\* pattern; a callback that raises is logged and the loop goes on
RECURSIVE NotifyAll(_, _, _)
NotifyAll(subs, patterns, event) ==
    IF patterns = <<>> THEN <<>>
    ELSE LET cbs == CallbacksOf(subs, Head(patterns))
         IN  [i \in 1..Len(cbs) |->
                 [pattern |-> Head(patterns), index |-> i,
                  callback |-> cbs[i], event |-> event,
                  raised |-> Raises(cbs[i])]]
             \o NotifyAll(subs, Tail(patterns), event)

\* publish, were the callbacks scheduled and run after those of the
\* events published later
PublishDefersCallbacks(subs, history, maxh, log, event) ==
    LET appended == Append(history, event)
    IN  [history |-> IF Len(appended) > maxh THEN LastSlice(appended, maxh)
                     ELSE appended,
         invocations |->
             NotifyAll(subs, patterns_to_notify(subs, event.event_type), event)
             \o log,
         raised |-> FALSE]

\* EventBus.publish: the history, the invocations made so far, and whether
\* publish raised
publish(subs, history, maxh, log, event) ==
    LET appended == Append(history, event)
    IN  [history |-> IF Len(appended) > maxh THEN LastSlice(appended, maxh)
                     ELSE appended,
         invocations |->
             log \o
             NotifyAll(subs, patterns_to_notify(subs, event.event_type), event),
         raised |-> FALSE]

\* EventBus.get_recent_events: self.event_history[-count:]
get_recent_events(history, count) == LastSlice(history, count)

\* AgentEvent(event_type, ...): the n-th event object created
NewEvent(n, event_type) ==
    [id |-> n, event_type |-> event_type, session_id |-> None, task_id |-> 0]

\* session_id = str(uuid.uuid4()) of the running execute_project call
SessionId == session_id

\* AgentEvent(event_type, ..., data={"task_id": ...}, session_id=session_id)
SessionEvent(n, event_type, task_id) ==
    [NewEvent(n, event_type) EXCEPT !.session_id = SessionId,
                                    !.task_id = task_id]

\* the number of subscribe calls made
Subscriptions(subs) ==
    LET RECURSIVE Sum(_)
        Sum(k) == IF k = 0 THEN 0 ELSE Len(subs[k].callbacks) + Sum(k - 1)
    IN  Sum(Len(subs))

(***************************************************************************)
(* A publisher and the subscribers of an EventBus                          *)
(***************************************************************************)
BusInit == InitAll({<<>>}, 0, {DefaultMaxConcurrentTasks}, Capacities)

\* event_bus.subscribe(pattern, callback)
Subscribe(pattern, callback) ==
    /\ Subscriptions(subscribers) < MaxSubscriptions
    /\ subscribers' = subscribe(subscribers, pattern, callback)
    /\ subscribed' =
          Append(subscribed,
                 [pattern |-> pattern,
                  index |-> Len(CallbacksOf(subscribers', pattern))])
    /\ last_call' = Call("subscribe", 0, TRUE)
    /\ UNCHANGED <<tasks, schedVars, sessVars, event_history, max_history,
                   published, invocations, otherVars>>

\* await event_bus.publish(AgentEvent(event_type, ...))
Publish(event_type) ==
    /\ Len(published) < MaxEvents
    /\ LET event == NewEvent(Len(published) + 1, event_type)
           r == publish(subscribers, event_history, max_history, invocations,
                        event)
       IN  /\ published' = Append(published, event)
           /\ event_history' = r.history
           /\ invocations' = r.invocations
           /\ last_call' = Call("publish", event.id, ~r.raised)
    /\ UNCHANGED <<tasks, schedVars, sessVars, subscribers, max_history,
                   subscribed, otherVars>>

\* event_bus.get_recent_events(count)
GetRecentEvents(count) ==
    /\ last_call' = [Call("get_recent_events", count, TRUE) EXCEPT
                        !.out = get_recent_events(event_history, count)]
    /\ UNCHANGED <<tasks, schedVars, sessVars, busVars, otherVars>>

BusNext ==
    \/ \E pattern \in Patterns, callback \in Callbacks :
          Subscribe(pattern, callback)
    \/ \E event_type \in EventType : Publish(event_type)

BusSpec == BusInit /\ [][BusNext]_vars

(***************************************************************************)
(* A publisher and a reader of the history of an EventBus                  *)
(***************************************************************************)
HistoryNext ==
    \/ \E event_type \in EventType : Publish(event_type)
    \/ \E count \in 0..MaxEvents : GetRecentEvents(count)

HistorySpec == BusInit /\ [][HistoryNext]_vars

(***************************************************************************)
(* AgentOrchestrator.execute_project: one session                          *)
(***************************************************************************)
\* await self.event_bus.publish(AgentEvent(event_type, ...,
\* session_id=session_id)) in execute_project and stop_session
SessionPublish(event_type, task_id) ==
    LET event == SessionEvent(Len(published) + 1, event_type, task_id)
        r == publish(subscribers, event_history, max_history, invocations,
                     event)
    IN  /\ published' = Append(published, event)
        /\ event_history' = r.history
        /\ invocations' = r.invocations
        /\ UNCHANGED <<subscribers, max_history, subscribed>>

\* success_rate = len(completed_tasks) / len(tasks) if tasks else 0, as the
\* fraction num / den
success_rate(completed, total) ==
    IF total # 0 THEN [num |-> completed, den |-> total]
    ELSE [num |-> 0, den |-> 1]

\* _generate_deliverables: the entry a completed task adds to the group of
\* its role ("documents" for both roles modelled)
RECURSIVE generate_deliverables(_, _)
generate_deliverables(completed, tks) ==
    IF completed = <<>> THEN [documents |-> <<>>, code_artifacts |-> <<>>,
                              test_reports |-> <<>>,
                              deployment_configs |-> <<>>]
    ELSE LET task == tks[Head(completed)]
             rest == generate_deliverables(Tail(completed), tks)
         IN  IF task.agent_role \in {PROJECT_MANAGER, ARCHITECT}
             THEN [rest EXCEPT !.documents =
                      <<[type |-> task.agent_role, task_id |-> task.task_id,
                         content |-> task.result]>> \o @]
             ELSE rest
SessionInit == InitWith(NumTasks, Ceilings)

\* the size of the semaphore, were it the number of tasks of the round
SemaphoreOfAllTasks(a, b) == a

Min(a, b) == IF a <= b THEN a ELSE b

RECURSIVE AddAll(_, _, _)
\* for task in tasks: self.scheduler.add_task(task)
AddAll(queue, ids, tks) ==
    IF ids = <<>> THEN queue
    ELSE AddAll(add_task(Head(ids), queue, tks).queue, Tail(ids), tks)

\* execute_project up to the round loop: the session is created and the
\* tasks of the project are added to the scheduler
StartSession ==
    /\ pc = "idle"
    /\ session_info' = [session_info EXCEPT !.status = "executing"]
    /\ task_queue' = AddAll(task_queue, project_tasks, tasks)
    /\ completed_tasks' = <<>>
    /\ iteration' = 0
    /\ pc' = "round"
    /\ SessionPublish(PROJECT_STARTED, 0)
    /\ UNCHANGED <<tasks, agent_loads, max_concurrent_tasks, ready_tasks,
                   completed_task_ids, coroutine, semaphore,
                   execution_results, next_result, last_call, rounds, arrived,
                   project_result, otherVars>>

\* the head of a round, were a round without ready tasks to go on to the
\* next iteration instead of leaving the loop
BeginRoundSkipsEmptyRound ==
    /\ pc = "round"
    /\ iteration < max_iterations
    /\ LET ids == SeqToSet(completed_tasks)
           r == get_ready_tasks(task_queue, tasks, agent_loads,
                                max_concurrent_tasks, ids)
       IN  /\ completed_task_ids' = ids
           /\ tasks' = r.tasks
           /\ ready_tasks' = r.ready
           /\ IF r.ready = <<>>
              THEN /\ iteration' = iteration + 1
                   /\ pc' = IF iteration + 1 < max_iterations THEN "round"
                            ELSE "finish"
                   /\ UNCHANGED <<coroutine, semaphore>>
              ELSE /\ pc' = "gather"
                   /\ iteration' = iteration
                   /\ coroutine' = [t \in TaskIds |->
                                       IF t \in SeqToSet(r.ready) THEN "waiting"
                                       ELSE coroutine[t]]
                   /\ semaphore' = Min(Len(r.ready), MaxParallel)
    /\ UNCHANGED <<schedVars, completed_tasks, execution_results,
                   next_result, session_info, last_call, project_result,
                   busVars, otherVars>>
    /\ rounds' = rounds + 1
    /\ arrived' = <<>>

\* the head of a round: get_ready_tasks; no ready task ends the loop,
\* otherwise _execute_tasks_parallel creates one coroutine per ready task
\* and the semaphore
BeginRound ==
    /\ pc = "round"
    /\ iteration < max_iterations
    /\ LET ids == SeqToSet(completed_tasks)
           r == get_ready_tasks(task_queue, tasks, agent_loads,
                                max_concurrent_tasks, ids)
       IN  /\ completed_task_ids' = ids
           /\ tasks' = r.tasks
           /\ ready_tasks' = r.ready
           /\ IF r.ready = <<>>
              THEN /\ pc' = "finish"
                   /\ UNCHANGED <<coroutine, semaphore>>
              ELSE /\ pc' = "gather"
                   /\ coroutine' = [t \in TaskIds |->
                                       IF t \in SeqToSet(r.ready) THEN "waiting"
                                       ELSE coroutine[t]]
                   /\ semaphore' = Min(Len(r.ready), MaxParallel)
    /\ UNCHANGED <<schedVars, iteration, completed_tasks, execution_results,
                   next_result, session_info, last_call, project_result,
                   busVars, otherVars>>
    /\ rounds' = rounds + 1
    /\ arrived' = <<>>

\* the coroutines enter the semaphore in the order of the list
FirstWaiting(t) ==
    \E i \in 1..Len(ready_tasks) :
        /\ ready_tasks[i] = t
        /\ coroutine[t] = "waiting"
        /\ \A j \in 1..(i - 1) : coroutine[ready_tasks[j]] # "waiting"

\* execute_single_task up to its await: the semaphore is entered,
\* assign_task(task) is called and the executor is called
Dispatch(t) ==
    /\ pc = "gather"
    /\ FirstWaiting(t)
    /\ semaphore > 0
    /\ semaphore' = semaphore - 1
    /\ LET r == assign_task(tasks[t], None, agent_loads, Now)
       IN  /\ tasks' = [tasks EXCEPT ![t] = r.task]
           /\ agent_loads' = r.loads
    /\ coroutine' = [coroutine EXCEPT ![t] = "running"]
    /\ UNCHANGED <<task_queue, max_concurrent_tasks, pc, iteration,
                   completed_tasks, ready_tasks, completed_task_ids,
                   execution_results, next_result, session_info, last_call, rounds, arrived,
                   project_result, busVars, otherVars>>

\* the executor call of execute_single_task returns or raises, and the
\* coroutine returns its tuple and leaves the semaphore
ExecutorReturns(t, outcome) ==
    /\ pc = "gather"
    /\ coroutine[t] = "running"
    /\ execution_results' = [execution_results EXCEPT ![t] = outcome]
    /\ arrived' = Append(arrived, t)
    /\ coroutine' = [coroutine EXCEPT ![t] = "done"]
    /\ semaphore' = semaphore + 1
    /\ UNCHANGED <<tasks, schedVars, pc, iteration, completed_tasks,
                   ready_tasks, completed_task_ids, next_result,
                   session_info, last_call, rounds,
                   project_result, busVars, otherVars>>

\* asyncio.gather returns: results in the order of the list of ready tasks
GatherReturns ==
    /\ pc = "gather"
    /\ \A t \in SeqToSet(ready_tasks) : coroutine[t] = "done"
    /\ pc' = "process"
    /\ next_result' = 1
    /\ UNCHANGED <<tasks, schedVars, iteration, completed_tasks, ready_tasks,
                   completed_task_ids, coroutine, semaphore,
                   execution_results, session_info, last_call, rounds, arrived,
                   project_result, busVars, otherVars>>

\* one pass of the loop over execution_results
ProcessResult ==
    /\ pc = "process"
    /\ next_result <= Len(ready_tasks)
    /\ LET t == ready_tasks[next_result]
           res == execution_results[t]
       IN  IF res.success
           THEN LET r == complete_task(tasks[t], res.result, agent_loads, Now)
                IN  /\ tasks' = [tasks EXCEPT ![t] = r.task]
                    /\ agent_loads' = r.loads
                    /\ completed_tasks' = Append(completed_tasks, t)
                    /\ SessionPublish(TASK_COMPLETED, tasks[t].task_id)
           ELSE LET r == fail(tasks[t], res.result, Now)
                IN  /\ tasks' = [tasks EXCEPT ![t] = r.task]
                    /\ UNCHANGED <<agent_loads, completed_tasks, busVars>>
    /\ next_result' = next_result + 1
    /\ UNCHANGED <<task_queue, max_concurrent_tasks, pc, iteration,
                   ready_tasks, completed_task_ids, coroutine, semaphore,
                   execution_results, session_info, last_call, rounds, arrived,
                   project_result, otherVars>>

\* the end of a round, were the loop not bounded by max_iterations
EndRoundKeepsLooping ==
    /\ pc = "process"
    /\ next_result > Len(ready_tasks)
    /\ IF Len(completed_tasks) >=
              Cardinality({t \in SeqToSet(project_tasks) :
                              tasks[t].status # CANCELLED})
       THEN pc' = "finish"
       ELSE pc' = "round"
    /\ UNCHANGED <<tasks, schedVars, iteration, completed_tasks, ready_tasks,
                   completed_task_ids, coroutine, semaphore,
                   execution_results, next_result, session_info, last_call,
                   rounds, arrived, project_result, busVars, otherVars>>

\* the end of a round: leave the loop when every task that is not
\* cancelled is in completed_tasks, or when the iterations are used up
EndRound ==
    /\ pc = "process"
    /\ next_result > Len(ready_tasks)
    /\ IF Len(completed_tasks) >=
              Cardinality({t \in SeqToSet(project_tasks) :
                              tasks[t].status # CANCELLED})
       THEN pc' = "finish" /\ iteration' = iteration
       ELSE /\ iteration' = iteration + 1
            /\ pc' = IF iteration + 1 < max_iterations THEN "round" ELSE "finish"
    /\ UNCHANGED <<tasks, schedVars, completed_tasks, ready_tasks,
                   completed_task_ids, coroutine, semaphore,
                   execution_results, next_result, session_info, last_call, rounds, arrived,
                   project_result, busVars, otherVars>>

\* after the loop: the session's summary
FinishSession ==
    /\ pc = "finish"
    /\ session_info' = [status |-> "completed",
                        completed_tasks |-> Len(completed_tasks),
                        total_tasks |-> Len(project_tasks)]
    /\ SessionPublish(PROJECT_COMPLETED, 0)
    /\ project_result' =
          [success |-> TRUE,
           tasks_completed |-> Len(completed_tasks),
           total_tasks |-> Len(project_tasks),
           success_rate |-> success_rate(Len(completed_tasks),
                                         Len(project_tasks)),
           deliverables |-> generate_deliverables(completed_tasks, tasks)]
    /\ pc' = "done"
    /\ UNCHANGED <<tasks, schedVars, iteration, completed_tasks, ready_tasks,
                   completed_task_ids, coroutine, semaphore,
                   execution_results, next_result, last_call, rounds, arrived,
                   otherVars>>

SessionNext ==
    \/ StartSession
    \/ BeginRound
    \/ \E t \in TaskIds : Dispatch(t)
    \/ \E t \in TaskIds, o \in ExecutorOutcomes : ExecutorReturns(t, o)
    \/ GatherReturns
    \/ ProcessResult
    \/ EndRound
    \/ FinishSession

SessionSpec == SessionInit /\ [][SessionNext]_vars

(***************************************************************************)
(* One session of an orchestrator with a MockAgent registered for every    *)
(* role, and a caller of stop_session running beside it.  The projects are *)
(* the lists of NumTasks tasks and the empty list, for which               *)
(* execute_project has its own success rate.                               *)
(***************************************************************************)
\* the session's record exists in self.sessions from the first statements of
\* execute_project on
SessionKnown == pc # "idle"

\* where the event loop can run another coroutine while execute_project is
\* suspended (an executor is awaited), and after execute_project returned
CanInterleave ==
    \/ pc = "idle"
    \/ pc = "gather" /\ \E t \in TaskIds : coroutine[t] = "running"
    \/ pc = "done"

\* await orchestrator.stop_session(session_id)
\* the stop_session calls that found the session, each of which published
\* its system_alert event
StopCalls ==
    Cardinality({i \in 1..Len(published) :
                    published[i].event_type = SYSTEM_ALERT})

StopSession ==
    /\ CanInterleave
    /\ StopCalls < MaxStopCalls
    /\ IF SessionKnown
       THEN /\ session_info' = [session_info EXCEPT !.status = "stopped"]
            /\ SessionPublish(SYSTEM_ALERT, 0)
            /\ last_call' = Call("stop_session", 0, TRUE)
       ELSE /\ last_call' = Call("stop_session", 0, FALSE)
            /\ UNCHANGED <<session_info, busVars>>
    /\ UNCHANGED <<tasks, schedVars, pc, iteration, completed_tasks,
                   ready_tasks, completed_task_ids, coroutine, semaphore,
                   execution_results, next_result, rounds, arrived, project_result,
                   otherVars>>

CoordinatorInit ==
    \/ InitWith(NumTasks, Ceilings)
    \/ InitFrom({<<>>}, 0, Ceilings)

CoordinatorNext ==
    \/ StartSession
    \/ BeginRound
    \/ \E t \in TaskIds : Dispatch(t)
    \/ \E t \in TaskIds, o \in ExecutorOutcomes : ExecutorReturns(t, o)
    \/ GatherReturns
    \/ ProcessResult
    \/ EndRound
    \/ FinishSession
    \/ StopSession

CoordinatorSpec == CoordinatorInit /\ [][CoordinatorNext]_vars

(***************************************************************************)
(* The plugin registry and the plugin manager. Plugin names are numbers:   *)
(* the i-th plugin created has the name i, so that `plugins` is also the   *)
(* dict PluginRegistry._plugins in insertion order.                        *)
(***************************************************************************)
PluginNames == 1..MaxPlugins

\* PluginMetadata.dependencies of the plugin `name`: none, or one other
\* plugin (created already, created later, or never)
DependencyLists(name) == {<<>>} \cup {<<d>> : d \in PluginNames \ {name}}

\* `name in self._plugins`
Registered(name, plg) == name \in 1..Len(plg)

RECURSIVE visit(_, _, _), VisitEach(_, _, _)
\* the closure visit of get_load_order; st holds visited, temp_visited and
\* result, and `raised` once ValueError was raised
visit(plugin_name, st, plg) ==
    IF st.raised THEN st
    ELSE IF plugin_name \in st.temp_visited
    THEN [st EXCEPT !.raised = TRUE]
    ELSE IF plugin_name \in st.visited THEN st
    ELSE LET entered == [st EXCEPT !.temp_visited = @ \cup {plugin_name}]
             after ==
                 IF Registered(plugin_name, plg)
                 THEN VisitEach(SelectSeq(plg[plugin_name].dependencies,
                                          LAMBDA dep : Registered(dep, plg)),
                                entered, plg)
                 ELSE entered
         IN  IF after.raised THEN after
             ELSE [after EXCEPT !.temp_visited = @ \ {plugin_name},
                                !.visited = @ \cup {plugin_name},
                                !.result = Append(@, plugin_name)]

\* for name in names: visit(name)
VisitEach(names, st, plg) ==
    IF names = <<>> THEN st
    ELSE VisitEach(Tail(names), visit(Head(names), st, plg), plg)

\* PluginRegistry.get_load_order: the list returned, or ValueError raised
get_load_order(plg) ==
    LET st == VisitEach([i \in 1..Len(plg) |-> i],
                        [visited |-> {}, temp_visited |-> {},
                         result |-> <<>>, raised |-> FALSE], plg)
    IN  [raised |-> st.raised,
         order |-> IF st.raised THEN <<>>
                   ELSE SortByPriority(st.result, plg)]

RECURSIVE InitializeEach(_, _, _)
\* the loop of initialize_all_plugins over load_order: st holds the plugins,
\* _initialized_plugins and the plugins initialized by this call; the
\* plugins of `failing` raise in initialize() and are disabled
InitializeEach(load_order, st, failing) ==
    IF load_order = <<>> THEN st
    ELSE LET plugin_name == Head(load_order)
             next ==
                 IF /\ st.plugins[plugin_name].is_enabled
                    /\ plugin_name \notin SeqToSet(st.initialized)
                 THEN IF plugin_name \notin failing
                      THEN [st EXCEPT
                               !.initialized = Append(@, plugin_name),
                               !.out = Append(@, plugin_name)]
                      ELSE [st EXCEPT
                               !.plugins[plugin_name].is_enabled = FALSE]
                 ELSE st
         IN  InitializeEach(Tail(load_order), next, failing)

PluginInit == InitFrom({<<>>}, 0, {DefaultMaxConcurrentTasks})

\* registry.create_plugin_instance(name, config) of a plugin class whose
\* metadata lists `dependencies`, with config.priority = priority
CreatePluginInstance(name, dependencies, priority) ==
    /\ name = Len(plugins) + 1
    /\ plugins' = Append(plugins, [dependencies |-> dependencies,
                                    priority |-> priority,
                                    is_enabled |-> TRUE])
    /\ last_call' = Call("create_plugin_instance", name, TRUE)
    /\ UNCHANGED <<tasks, schedVars, sessVars, busVars, agentVars,
                   initialized_plugins, agents, AGENT_CAPABILITIES, callVars>>

\* registry.get_load_order()
GetLoadOrder ==
    /\ LET r == get_load_order(plugins)
       IN  last_call' = [Call("get_load_order", 0, ~r.raised) EXCEPT
                           !.out = r.order]
    /\ UNCHANGED <<tasks, schedVars, sessVars, busVars, otherVars>>

\* await manager.initialize_all_plugins(); the ValueError of get_load_order
\* is not caught
InitializeAllPlugins(failing) ==
    /\ LET r == get_load_order(plugins)
           st == InitializeEach(r.order,
                                [plugins |-> plugins,
                                 initialized |-> initialized_plugins,
                                 out |-> <<>>], failing)
       IN  /\ plugins' = st.plugins
           /\ initialized_plugins' = st.initialized
           /\ last_call' = [Call("initialize_all_plugins", 0, ~r.raised)
                               EXCEPT !.out = st.out]
    /\ UNCHANGED <<tasks, schedVars, sessVars, busVars, agentVars, agents, AGENT_CAPABILITIES,
                   callVars>>

PluginNext ==
    \/ \E name \in PluginNames :
          \E dependencies \in DependencyLists(name),
             priority \in {DefaultPluginPriority, DefaultPluginPriority + 30} :
             CreatePluginInstance(name, dependencies, priority)
    \/ GetLoadOrder
    \* initialize() raises in no plugin, or in the first one created
    \/ \E failing \in {{}, {1}} : InitializeAllPlugins(failing)

PluginSpec == PluginInit /\ [][PluginNext]_vars

(***************************************************************************)
(* Agents made by create_mock_agent, and their start_task, complete_task   *)
(* and fail_task. agents[a] is the a-th agent created; its capabilities    *)
(* attribute is the AgentCapability object of its role in the module-level *)
(* dict AGENT_CAPABILITIES, which every agent of the role shares.          *)
(***************************************************************************)
\* the tasks given to the agents: no dependencies, no tech_requirements
AgentTasks(n) ==
    { [t \in 1..n |-> NewTask(t, "task", r[t], MEDIUM, {})] :
        r \in RoleAssignments(n) }

AgentInit == InitFrom(AgentTasks(NumAgentTasks), NumAgentTasks,
                      {DefaultMaxConcurrentTasks})

\* BaseAgent.is_available (is_active is never cleared); capabilities is the
\* object get_agent_capability returned for the agent's role
is_available(agent, capabilities) ==
    Len(agent.current_tasks) < capabilities[agent.role]

\* BaseAgent.can_handle_task
can_handle_task(agent, task, capabilities) ==
    /\ task.agent_role = agent.role
    /\ is_available(agent, capabilities)

\* list.remove(t): the list without its first t
RECURSIVE Remove(_, _)
Remove(list, t) ==
    IF list = <<>> THEN <<>>
    ELSE IF Head(list) = t THEN Tail(list)
    ELSE <<Head(list)>> \o Remove(Tail(list), t)

\* create_mock_agent(role, max_concurrent_tasks): the capacity is written
\* into the AgentCapability object get_agent_capability returned; the
\* agent's `configured` records the argument it was created with. The
\* agent_id is role.value and the time of creation to the second; here the
\* role alone
CreateMockAgent(role, max) ==
    /\ Len(agents) < MaxAgents
    /\ AGENT_CAPABILITIES' = [AGENT_CAPABILITIES EXCEPT ![role] = max]
    /\ agents' = Append(agents, [role |-> role, agent_id |-> role,
                                  configured |-> max,
                                  current_tasks |-> <<>>,
                                  completed_tasks |-> <<>>,
                                  failed_tasks |-> <<>>])
    /\ last_call' = Call("create_mock_agent", 0, TRUE)
    /\ UNCHANGED <<tasks, schedVars, sessVars, busVars, agentVars,
                   plugins, initialized_plugins, callVars>>

\* await agent.start_task(task)
AgentStartTask(a, t) ==
    /\ a <= Len(agents)
    /\ LET agent == agents[a]
           r == IF can_handle_task(agent, tasks[t], AGENT_CAPABILITIES)
                THEN start(tasks[t], agent.agent_id, Now)
                ELSE Ret(FALSE, tasks[t])
       IN  /\ tasks' = [tasks EXCEPT ![t] = r.task]
           /\ agents' = IF r.ok
                         THEN [agents EXCEPT
                                  ![a].current_tasks = Append(@, t)]
                         ELSE agents
           /\ last_call' = [Call("agent.start_task", t, r.ok) EXCEPT
                               !.arg = {a}]
    /\ UNCHANGED <<schedVars, sessVars, busVars, agentVars, plugins, initialized_plugins,
                   AGENT_CAPABILITIES, callVars>>

\* await agent.complete_task(task, result)
AgentCompleteTask(a, t, result) ==
    /\ a <= Len(agents)
    /\ LET agent == agents[a]
           r == IF t \in SeqToSet(agent.current_tasks)
                THEN complete(tasks[t], result, Now)
                ELSE Ret(FALSE, tasks[t])
       IN  /\ tasks' = [tasks EXCEPT ![t] = r.task]
           /\ agents' = IF r.ok
                         THEN [agents EXCEPT
                                  ![a].current_tasks = Remove(@, t),
                                  ![a].completed_tasks = Append(@, t)]
                         ELSE agents
           /\ last_call' = [Call("agent.complete_task", t, r.ok) EXCEPT
                               !.arg = {a}]
    /\ UNCHANGED <<schedVars, sessVars, busVars, agentVars, plugins, initialized_plugins,
                   AGENT_CAPABILITIES, callVars>>

\* await agent.fail_task(task, error_message)
AgentFailTask(a, t, error_message) ==
    /\ a <= Len(agents)
    /\ LET agent == agents[a]
           r == IF t \in SeqToSet(agent.current_tasks)
                THEN fail(tasks[t], error_message, Now)
                ELSE Ret(FALSE, tasks[t])
       IN  /\ tasks' = [tasks EXCEPT ![t] = r.task]
           /\ agents' = IF r.ok
                         THEN [agents EXCEPT
                                  ![a].current_tasks = Remove(@, t),
                                  ![a].failed_tasks = Append(@, t)]
                         ELSE agents
           /\ last_call' = [Call("agent.fail_task", t, r.ok) EXCEPT
                               !.arg = {a}]
    /\ UNCHANGED <<schedVars, sessVars, busVars, agentVars, plugins, initialized_plugins,
                   AGENT_CAPABILITIES, callVars>>

AgentNext ==
    \/ \E role \in AgentRole, max \in {1, DefaultAgentCapacity} :
          CreateMockAgent(role, max)
    \/ \E a \in 1..MaxAgents, t \in TaskIds : AgentStartTask(a, t)
    \/ \E a \in 1..MaxAgents, t \in TaskIds, result \in Results :
          AgentCompleteTask(a, t, result)
    \/ \E a \in 1..MaxAgents, t \in TaskIds, e \in Errors :
          AgentFailTask(a, t, e)

AgentSpec == AgentInit /\ [][AgentNext]_vars

(***************************************************************************)
(* Two execute_project calls on one AgentOrchestrator, sharing its         *)
(* scheduler and event bus: the second is made while the first is          *)
(* suspended in asyncio.gather or after it returned, and the event loop    *)
(* runs one call until it is suspended or returns and then the other.      *)
(***************************************************************************)
\* the Task objects of two projects of k tasks: each project with its own
\* dependency lists, the two with the same roles (they compete for the same
\* ceilings), the second with the ids k + 1 .. 2k
TwoProjects(k) ==
    { [t \in 1..(2 * k) |->
         IF t <= k
         THEN NewTask(t, "task", r[t], PriorityAssignment(2 * k)[t], g1[t])
         ELSE NewTask(t, "task", r[t - k], PriorityAssignment(2 * k)[t],
                      {d + k : d \in g2[t - k]})] :
        g1 \in DependencyGraphs(k), g2 \in DependencyGraphs(k),
        r \in RoleAssignments(k) }

TwoSessionsInit ==
    InitOrchestrator(TwoProjects(NumProjectTasks), 2 * NumProjectTasks,
                     NumProjectTasks, Ceilings, {DefaultMaxHistory})

\* the locals of the running execute_project call
Locals ==
    [pc |-> pc, iteration |-> iteration, completed_tasks |-> completed_tasks,
     ready_tasks |-> ready_tasks, completed_task_ids |-> completed_task_ids,
     coroutine |-> coroutine, semaphore |-> semaphore,
     execution_results |-> execution_results, next_result |-> next_result,
     session_info |-> session_info, rounds |-> rounds, arrived |-> arrived,
     project_result |-> project_result, project_tasks |-> project_tasks,
     session_id |-> session_id]

\* a second execute_project call is made, while the first awaits
\* asyncio.gather or after it returned: it runs with locals of its own, on
\* the Task objects that are not of the first project
ExecuteProjectAgain ==
    /\ other_session.pc = "none"
    /\ pc \in {"gather", "done"}
    /\ other_session' = Locals
    /\ pc' = "idle"
    /\ iteration' = 0
    /\ completed_tasks' = <<>>
    /\ ready_tasks' = <<>>
    /\ completed_task_ids' = {}
    /\ coroutine' = [t \in TaskIds |-> "none"]
    /\ semaphore' = 0
    /\ execution_results' = [t \in TaskIds |-> NoOutcome]
    /\ next_result' = 0
    /\ session_info' = [status |-> None, completed_tasks |-> 0,
                        total_tasks |-> 0]
    /\ rounds' = 0
    /\ arrived' = <<>>
    /\ project_result' = None
    /\ project_tasks' = [i \in 1..(Cardinality(TaskIds) - Len(project_tasks))
                            |-> Len(project_tasks) + i]
    /\ session_id' = "session_2"
    /\ UNCHANGED <<tasks, schedVars, last_call, busVars, agentVars,
                   plugins, initialized_plugins, agents, AGENT_CAPABILITIES>>

\* the event loop goes on with the other call, which awaits asyncio.gather
Resume ==
    /\ other_session.pc = "gather"
    /\ pc \in {"gather", "done"}
    /\ other_session' = Locals
    /\ pc' = other_session.pc
    /\ iteration' = other_session.iteration
    /\ completed_tasks' = other_session.completed_tasks
    /\ ready_tasks' = other_session.ready_tasks
    /\ completed_task_ids' = other_session.completed_task_ids
    /\ coroutine' = other_session.coroutine
    /\ semaphore' = other_session.semaphore
    /\ execution_results' = other_session.execution_results
    /\ next_result' = other_session.next_result
    /\ session_info' = other_session.session_info
    /\ rounds' = other_session.rounds
    /\ arrived' = other_session.arrived
    /\ project_result' = other_session.project_result
    /\ project_tasks' = other_session.project_tasks
    /\ session_id' = other_session.session_id
    /\ UNCHANGED <<tasks, schedVars, last_call, busVars, agentVars,
                   plugins, initialized_plugins, agents, AGENT_CAPABILITIES>>

TwoSessionsNext ==
    \/ StartSession
    \/ BeginRound
    \/ \E t \in TaskIds : Dispatch(t)
    \/ \E t \in TaskIds, o \in {Succeeded, Raised} : ExecutorReturns(t, o)
    \/ GatherReturns
    \/ ProcessResult
    \/ EndRound
    \/ FinishSession
    \/ ExecuteProjectAgain
    \/ Resume

TwoSessionsSpec == TwoSessionsInit /\ [][TwoSessionsNext]_vars

(***************************************************************************)
(* One session over a project of more than MaxParallel tasks of one role   *)
(* without dependencies, all eligible in the first round; the executor     *)
(* raises for the first and returns a result for the others                *)
(***************************************************************************)
WideTasks(n) ==
    { [t \in 1..n |-> NewTask(t, "task", PROJECT_MANAGER, MEDIUM, {})] }

WideSessionInit ==
    InitFrom(WideTasks(NumWideTasks), NumWideTasks,
             {DefaultMaxConcurrentTasks})

\* what the executor does with task t of the wide project
WideOutcome(t) == IF t = 1 THEN Raised ELSE Succeeded

WideSessionNext ==
    \/ StartSession
    \/ BeginRound
    \/ \E t \in TaskIds : Dispatch(t)
    \/ \E t \in TaskIds : ExecutorReturns(t, WideOutcome(t))
    \/ GatherReturns
    \/ ProcessResult
    \/ EndRound
    \/ FinishSession

WideSessionSpec == WideSessionInit /\ [][WideSessionNext]_vars

(***************************************************************************)
(* One session over a chain of tasks longer than max_iterations, each task *)
(* depending on the one before; every executor call returns or raises and  *)
(* the event loop keeps running the session's coroutines                   *)
(***************************************************************************)
ChainTasks(n) ==
    { [t \in 1..n |-> NewTask(t, "task", PROJECT_MANAGER, MEDIUM, Chain(n)[t])] }

LongSessionInit ==
    InitFrom(ChainTasks(NumChainTasks), NumChainTasks,
             {DefaultMaxConcurrentTasks})

\* what the executor does with the tasks of the chain
ChainOutcomes == {Succeeded, Raised}

LongSessionNext ==
    \/ StartSession
    \/ BeginRound
    \/ \E t \in TaskIds : Dispatch(t)
    \/ \E t \in TaskIds, o \in ChainOutcomes : ExecutorReturns(t, o)
    \/ GatherReturns
    \/ ProcessResult
    \/ EndRound
    \/ FinishSession

\* execute_project runs on when it can: weak fairness of each step. For
\* StartSession and BeginRound, WF_vars is written out with the condition
\* under which the step is enabled.
LongSessionSpec ==
    /\ LongSessionInit
    /\ [][LongSessionNext]_vars
    /\ ([]<>(pc # "idle") \/ []<><<StartSession>>_vars)
    /\ ([]<>~(pc = "round" /\ iteration < max_iterations)
          \/ []<><<BeginRound>>_vars)
    /\ WF_vars(\E t \in TaskIds : Dispatch(t))
    /\ WF_vars(\E t \in TaskIds, o \in ChainOutcomes : ExecutorReturns(t, o))
    /\ WF_vars(GatherReturns)
    /\ WF_vars(ProcessResult)
    /\ WF_vars(EndRound)
    /\ WF_vars(FinishSession)

(***************************************************************************)
(* Properties                                                              *)
(***************************************************************************)
Terminal == {COMPLETED, FAILED, CANCELLED}

\* C1: during a session, every role's in-flight count agent_loads[role] is
\* at most the configured ceiling max_concurrent_tasks.
C1_LoadWithinCeiling ==
    \A role \in AgentRole : agent_loads[role] <= max_concurrent_tasks

\* C1 witness: with a ceiling of 1, two items of one role have been assigned
\* and handed to the executor and are running at the same time.
C1_Witness ==
    /\ max_concurrent_tasks = 1
    /\ \E t, u \in TaskIds :
          /\ t # u
          /\ tasks[t].agent_role = tasks[u].agent_role
          /\ coroutine[t] = "running"
          /\ coroutine[u] = "running"

\* C2: in a session an item B that depends on A has not been returned by
\* get_ready_tasks, nor handed to the executor, unless A is in the completed
\* set passed to the scheduler, which it enters only when its successful
\* outcome is processed.
C2_DependencyOrder ==
    \A b \in TaskIds : \A a \in tasks[b].dependencies :
        ( \/ b \in SeqToSet(ready_tasks)
          \/ tasks[b].status # PENDING
          \/ coroutine[b] # "none" )
        => /\ a \in completed_task_ids
           /\ a \in SeqToSet(completed_tasks)
           /\ execution_results[a].success

\* C2 witness: an item with a dependency is running in the executor.
C2_Witness ==
    \E b \in TaskIds :
        /\ tasks[b].dependencies # {}
        /\ coroutine[b] = "running"

\* the queued items that satisfy the three conditions of get_ready_tasks
Eligible(tks, completed) ==
    { t \in SeqToSet(task_queue) :
        /\ tks[t].status = PENDING
        /\ tks[t].dependencies \subseteq completed
        /\ agent_loads[tks[t].agent_role] < max_concurrent_tasks }

\* C3: get_ready_tasks(completed) returns, each once, exactly the queued
\* items that were Pending at the call, whose dependencies are all in
\* `completed` and whose role's in-flight count is below the ceiling.
C3_ReadyExactly ==
    [][ last_call'.op = "get_ready_tasks" =>
          /\ SeqToSet(last_call'.out) = Eligible(tasks, last_call'.arg)
          /\ Len(last_call'.out) = Cardinality(Eligible(tasks, last_call'.arg))
          /\ Eligible(tasks', last_call'.arg) = {} ]_vars

\* C3 witness: a call returned an item and left out a queued Pending item
\* with an unmet dependency.
C3_Witness ==
    /\ last_call.op = "get_ready_tasks"
    /\ last_call.out # <<>>
    /\ \E t \in SeqToSet(task_queue) :
          /\ tasks[t].status = PENDING
          /\ ~ (tasks[t].dependencies \subseteq last_call.arg)

C5_AssignThenComplete ==
    [][ LET t == last_call'.task
            role == tasks[t].agent_role
        IN  /\ ( /\ last_call'.op = "assign_task"
                 /\ t \in SeqToSet(task_queue)
                 /\ tasks[t].status = PENDING )
               => /\ last_call'.ret
                  /\ tasks'[t].status = IN_PROGRESS
                  /\ agent_loads'[role] = agent_loads[role] + 1
            /\ ( /\ last_call'.op = "complete_task"
                 /\ last_call = Call("assign_task", t, TRUE) )
               => /\ last_call'.ret
                  /\ tasks'[t].status = COMPLETED
                  /\ agent_loads'[role] = agent_loads[role] - 1 ]_vars

\* C5 witness: a complete_task has returned True for a queued item and its
\* role's load is back at 0.
C5_Witness ==
    /\ last_call.op = "complete_task"
    /\ last_call.ret
    /\ last_call.task \in SeqToSet(task_queue)
    /\ tasks[last_call.task].status = COMPLETED
    /\ agent_loads[tasks[last_call.task].agent_role] = 0

\* C7: complete_task on an item that is already Completed, Failed or
\* Cancelled returns False, leaves the item unchanged and does not
\* decrement the role's in-flight count.
C7_CompleteIdempotent ==
    [][ ( /\ last_call'.op = "complete_task"
          /\ tasks[last_call'.task].status \in Terminal )
        => /\ ~ last_call'.ret
           /\ tasks' = tasks
           /\ agent_loads' = agent_loads ]_vars

\* C7 witness: a complete_task on a Completed item has returned False.
C7_Witness ==
    /\ last_call.op = "complete_task"
    /\ ~ last_call.ret
    /\ tasks[last_call.task].status = COMPLETED

\* every dependency points to an item created earlier
AcyclicGraph == \A t \in TaskIds : \A d \in tasks[t].dependencies : d < t

TransitionOps ==
    {"start", "complete", "fail", "block", "unblock", "cancel",
     "assign_task", "complete_task"}

AcceptedSource(op) ==
    CASE op \in {"start", "assign_task"} -> {PENDING}
      [] op \in {"complete", "complete_task"} -> {IN_PROGRESS}
      [] op = "fail" -> {IN_PROGRESS, READY}
      [] op = "block" -> TaskStatus \ {COMPLETED, CANCELLED, FAILED}
      [] op = "unblock" -> {BLOCKED}
      [] op = "cancel" -> TaskStatus \ {COMPLETED, CANCELLED}

\* C10: a transition request on an item that is not in a state the request
\* is accepted from returns False, and a request that returns False leaves
\* every item (state, timestamps, result, error message) and the role
\* counters unchanged.
C10_RejectedIsNoOp ==
    [][ last_call'.op \in TransitionOps =>
          LET t == last_call'.task
          IN  /\ tasks[t].status \notin AcceptedSource(last_call'.op)
                 => ~ last_call'.ret
              /\ ~ last_call'.ret
                 => (tasks' = tasks /\ agent_loads' = agent_loads) ]_vars

\* C10 witness: a cancel of a Completed item, a start of an item in
\* progress or a fail of a Pending item has returned False.
C10_Witness ==
    /\ ~ last_call.ret
    /\ \/ last_call.op = "cancel" /\ tasks[last_call.task].status = COMPLETED
       \/ last_call.op = "start" /\ tasks[last_call.task].status = IN_PROGRESS
       \/ last_call.op = "fail" /\ tasks[last_call.task].status = PENDING

\* C11 (as claimed): get_ready_tasks marks every item it returns as Ready
\* and returns no item that one of the get_ready_tasks calls made right
\* before it returned; and an item with an empty dependency set is returned
\* by the get_ready_tasks call that follows its add_task.
C11_ReturnedOnce ==
    [][ last_call'.op = "get_ready_tasks" =>
          /\ \A t \in SeqToSet(last_call'.out) : tasks'[t].status = READY
          /\ SeqToSet(last_call'.out) \cap last_call'.earlier = {}
          /\ (/\ last_call.op = "add_task"
              /\ last_call.ret
              /\ tasks[last_call.task].dependencies = {})
                => last_call.task \in SeqToSet(last_call'.out) ]_vars

\* C11 (amended): get_ready_tasks marks every item it returns as Ready and
\* returns no item that one of the get_ready_tasks calls made right before
\* it returned; and every queued item with an empty dependency set that is
\* Pending while its role's in-flight count is below the ceiling is
\* returned by the call.
C11_ReturnedOnceWhenAvailable ==
    [][ last_call'.op = "get_ready_tasks" =>
          /\ \A t \in SeqToSet(last_call'.out) : tasks'[t].status = READY
          /\ SeqToSet(last_call'.out) \cap last_call'.earlier = {}
          /\ \A t \in SeqToSet(task_queue) :
                (/\ tasks[t].dependencies = {}
                 /\ tasks[t].status = PENDING
                 /\ agent_loads[tasks[t].agent_role] < max_concurrent_tasks)
                  => t \in SeqToSet(last_call'.out) ]_vars

\* C11 witness: a get_ready_tasks call follows one that returned an item
\* with an empty dependency set, which is still Ready and queued, and
\* returns nothing.
C11_Witness ==
    /\ last_call.op = "get_ready_tasks"
    /\ last_call.out = <<>>
    /\ \E t \in last_call.earlier :
          /\ tasks[t].dependencies = {}
          /\ tasks[t].status = READY
          /\ t \in SeqToSet(task_queue)

\* the place of a queued object in the queue
QueuePosition(t) == CHOOSE i \in 1..Len(task_queue) : task_queue[i] = t

\* C12: the list get_ready_tasks returned is in descending order of
\* priority, and of two items of equal priority the one enqueued first
\* comes first.
C12_PriorityOrder ==
    last_call.op = "get_ready_tasks" =>
        \A i, j \in 1..Len(last_call.out) :
            i < j =>
                LET a == last_call.out[i]
                    b == last_call.out[j]
                IN  /\ tasks[a].priority >= tasks[b].priority
                    /\ tasks[a].priority = tasks[b].priority
                          => QueuePosition(a) < QueuePosition(b)

\* C12 witness: a call returned three items: one of high priority that was
\* enqueued last, before two of equal priority, of which the one created
\* later was enqueued first.
C12_Witness ==
    /\ last_call.op = "get_ready_tasks"
    /\ Len(last_call.out) = 3
    /\ tasks[last_call.out[1]].priority > tasks[last_call.out[2]].priority
    /\ tasks[last_call.out[2]].priority = tasks[last_call.out[3]].priority
    /\ last_call.out[2] > last_call.out[3]
    /\ task_queue[Len(task_queue)] = last_call.out[1]

\* C13: add_task returns False and leaves the queue as it is when an item
\* with the task's id is queued, whatever its other fields; otherwise it
\* appends the task and returns True.
C13_DuplicateIdRejected ==
    [][ last_call'.op = "add_task" =>
          LET t == last_call'.task
          IN  IF \E i \in 1..Len(task_queue) :
                    tasks[task_queue[i]].task_id = tasks[t].task_id
              THEN ~last_call'.ret /\ task_queue' = task_queue
              ELSE last_call'.ret /\ task_queue' = Append(task_queue, t) ]_vars

\* C14: no queued item has its own id among its dependencies: add_task of
\* such an item has returned False, and add_dependency with the item's own
\* id has returned False.
C14_NoSelfDependencyQueued ==
    /\ \A i \in 1..Len(task_queue) :
          tasks[task_queue[i]].task_id \notin tasks[task_queue[i]].dependencies
    /\ (/\ last_call.op = "add_task"
        /\ tasks[last_call.task].task_id \in tasks[last_call.task].dependencies)
          => ~last_call.ret
    /\ (/\ last_call.op = "add_dependency"
        /\ last_call.arg = {tasks[last_call.task].task_id})
          => ~last_call.ret

\* C15: the history holds at most max_history events: the
\* min(n, max_history) most recent of the n events published, in publish
\* order.
C15_HistoryBounded ==
    LET n == Len(published)
    IN  /\ Len(event_history) <= max_history
        /\ event_history = SubSeq(published, n - Min(n, max_history) + 1, n)

\* a subscription pattern matches an event kind: it is the kind, or "*", or
\* it ends in "*" and the part before the "*" is a prefix of the kind
Matches(pattern, event_type) ==
    \/ pattern = event_type
    \/ pattern = STAR
    \/ /\ endswith_star(pattern)
       /\ startswith(event_type, DropLast(pattern))

\* the invocations among `made` of the i-th callback subscribed under
\* `pattern`
InvocationsOf(made, pattern, i) ==
    {n \in 1..Len(made) : made[n].pattern = pattern /\ made[n].index = i}

\* C16: a publish invokes each subscription (pattern, callback) whose
\* pattern matches the event exactly once, and no subscription more than
\* once, the subscriptions under "*" included.
C16_ExactlyOnce ==
    [][ Len(published') = Len(published) + 1 =>
          LET event == published'[Len(published')]
              made == SubSeq(invocations', Len(invocations) + 1,
                             Len(invocations'))
          IN  \A k \in 1..Len(subscribers) :
                \A i \in 1..Len(subscribers[k].callbacks) :
                  LET count == Cardinality(
                          InvocationsOf(made, subscribers[k].pattern, i))
                  IN  /\ count <= 1
                      /\ Matches(subscribers[k].pattern, event.event_type)
                            => count = 1 ]_vars

\* C17: a publish invokes a subscribed callback if and only if the pattern
\* it is subscribed under matches the event's kind.
C17_InvokedIffMatching ==
    [][ Len(published') = Len(published) + 1 =>
          LET event == published'[Len(published')]
              made == SubSeq(invocations', Len(invocations) + 1,
                             Len(invocations'))
          IN  /\ \A k \in 1..Len(subscribers) :
                   \A i \in 1..Len(subscribers[k].callbacks) :
                     Matches(subscribers[k].pattern, event.event_type)
                       <=> InvocationsOf(made, subscribers[k].pattern, i) # {}
              /\ \A n \in 1..Len(made) :
                   /\ made[n].event = event
                   /\ HasKey(subscribers, made[n].pattern)
                   /\ made[n].index <=
                          Len(CallbacksOf(subscribers, made[n].pattern))
                   /\ made[n].callback =
                          CallbacksOf(subscribers, made[n].pattern)[made[n].index]
        ]_vars

\* C17 witness: the last publish invoked a callback subscribed under the
\* prefix pattern "task_*", and a callback subscribed before it under a
\* pattern that does not match the event was not invoked for it.
C17_Witness ==
    /\ last_call.op = "publish"
    /\ \E n \in 1..Len(invocations) :
          /\ invocations[n].event.id = last_call.task
          /\ invocations[n].pattern = <<"task_", "*">>
    /\ \E k \in 1..Len(subscribers) :
          /\ ~Matches(subscribers[k].pattern,
                      published[Len(published)].event_type)
          /\ subscribers[k].pattern # <<"task_", "*">>
          /\ subscribers[1].pattern = subscribers[k].pattern

\* C18: when a callback raises during a publish, every matching callback
\* is still invoked for the event, publish returns normally, the callback
\* that raised is invoked once only, and the history holds the event once.
C18_FailureIsolated ==
    [][ Len(published') = Len(published) + 1 =>
          LET event == published'[Len(published')]
              made == SubSeq(invocations', Len(invocations) + 1,
                             Len(invocations'))
          IN  (\E n \in 1..Len(made) : made[n].raised) =>
                /\ \A k \in 1..Len(subscribers) :
                     \A i \in 1..Len(subscribers[k].callbacks) :
                       Matches(subscribers[k].pattern, event.event_type)
                         => InvocationsOf(made, subscribers[k].pattern, i) # {}
                /\ last_call'.ret
                /\ \A n \in 1..Len(made) :
                     made[n].raised =>
                       Cardinality(InvocationsOf(made, made[n].pattern,
                                                 made[n].index)) = 1
                /\ Cardinality({h \in 1..Len(event_history') :
                                  event_history'[h] = event}) = 1 ]_vars

\* C19: the invocations of a subscription with an event published earlier
\* all come before its invocations with an event published later.
C19_DeliveryInPublishOrder ==
    \A m, n \in 1..Len(invocations) :
        (/\ invocations[m].pattern = invocations[n].pattern
         /\ invocations[m].index = invocations[n].index
         /\ invocations[m].event.id < invocations[n].event.id)
          => m < n

\* C19 witness: two events have been published and one subscription has
\* been invoked with both.
C19_Witness ==
    /\ Len(published) >= 2
    /\ \E m, n \in 1..Len(invocations) :
          /\ invocations[m].pattern = invocations[n].pattern
          /\ invocations[m].index = invocations[n].index
          /\ invocations[m].event.id = 1
          /\ invocations[n].event.id = 2

\* C20: execute_project terminates: the body of the round loop is entered
\* at most max_iterations times, the session reaches its end, and there
\* its summary is written with the number of tasks completed so far.
C20_Terminates ==
    /\ [](rounds <= max_iterations)
    /\ <>(pc = "done")
    /\ [](pc = "done" =>
            /\ session_info.status = "completed"
            /\ session_info.completed_tasks = Len(completed_tasks)
            /\ session_info.total_tasks = Cardinality(TaskIds))

\* C20 witness: a session has ended after max_iterations rounds with fewer
\* tasks completed than it has.
C20_Witness ==
    /\ pc = "done"
    /\ rounds = max_iterations
    /\ iteration = max_iterations
    /\ session_info.completed_tasks < session_info.total_tasks

\* C21: after stop_session is called on an executing session, the
\* coordinator starts no new round for it, and when execute_project ends no
\* item of the session is left Pending or Ready (each was cancelled).
C21_StopEndsSession ==
    [][(session_info.status = "stopped" /\ pc # "done") =>
          /\ rounds' = rounds
          /\ pc' = "done" =>
                \A t \in TaskIds : tasks'[t].status \notin {PENDING, READY}]_vars

\* the value of a success rate
SameRate(rate, num, den) == rate.num * den = num * rate.den

C23_AgentsRecordTasks ==
    (pc = "done" /\ project_result.success) =>
        \A t \in TaskIds :
            execution_results[t].success =>
                /\ t \in agent_completed_tasks[tasks[t].agent_role]
                /\ t \notin agent_current_tasks[tasks[t].agent_role]

\* agent_loads[role] is the number of queued items of the role in progress
LoadsCountInProgress ==
    \A role \in AgentRole :
        agent_loads[role] =
            Cardinality({t \in SeqToSet(task_queue) :
                            /\ tasks[t].agent_role = role
                            /\ tasks[t].status = IN_PROGRESS})

\* C24: agent_loads[role] is the number of queued items of the role in
\* progress; in particular, when the counters are right and an item leaves
\* InProgress to Failed or Cancelled, the counter of its role is decremented
\* and the counters are right afterwards.
C24_LoadFollowsInProgress ==
    [][(/\ LoadsCountInProgress
        /\ \E t \in SeqToSet(task_queue) :
              /\ tasks[t].status = IN_PROGRESS
              /\ tasks'[t].status \in {FAILED, CANCELLED})
       => LoadsCountInProgress']_vars

\* the task_failed events published for item t in the session before its
\* project_completed event
TaskFailedEvents(t) ==
    {i \in 1..Len(published) :
        /\ published[i].event_type = TASK_FAILED
        /\ published[i].task_id = tasks[t].task_id
        /\ published[i].session_id = SessionId
        /\ \E j \in (i + 1)..Len(published) :
              published[j].event_type = PROJECT_COMPLETED}

\* C25: every executor failure of a dispatched item is followed by exactly
\* one task_failed event for the item, with the session's id, published
\* before the session's project_completed event.
C25_FailurePublished ==
    pc = "done" =>
        \A t \in TaskIds :
            execution_results[t] = Raised =>
                Cardinality(TaskFailedEvents(t)) = 1

\* C26: at session end the reported completed count is the number of items
\* whose state is Completed, and the reported success rate is below 1.0
\* whenever some item is not Completed.
C26_CountsCompletedItems ==
    pc = "done" =>
        /\ project_result.tasks_completed =
              Cardinality({t \in TaskIds : tasks[t].status = COMPLETED})
        /\ (\E t \in TaskIds : tasks[t].status # COMPLETED) =>
              project_result.success_rate.num < project_result.success_rate.den

\* the entries of the deliverables that belong to item t
DeliverablesOf(t, group) ==
    {i \in 1..Len(group) : group[i].task_id = tasks[t].task_id}

\* C27: after a successful outcome was reported for an item, the item's
\* result is the payload the executor returned, and the deliverables hold
\* one entry for the item, in its role's group, with that payload.
C27_PayloadDelivered ==
    pc = "done" =>
        \A t \in SeqToSet(completed_tasks) :
            LET group == project_result.deliverables.documents
            IN  /\ tasks[t].result = execution_results[t].result
                /\ Cardinality(DeliverablesOf(t, group)) = 1
                /\ \A i \in DeliverablesOf(t, group) :
                      group[i].content = execution_results[t].result

\* C28: an item enters Failed only from InProgress and enters Blocked only
\* from Ready or InProgress.
C28_FailAndBlockSources ==
    [][\A t \in TaskIds :
          /\ (tasks[t].status # FAILED /\ tasks'[t].status = FAILED) =>
                tasks[t].status = IN_PROGRESS
          /\ (tasks[t].status # BLOCKED /\ tasks'[t].status = BLOCKED) =>
                tasks[t].status \in {READY, IN_PROGRESS}]_vars

\* C29: unblock on a Blocked item returns it to Ready when all of its
\* dependencies are completed and to Pending otherwise; unblock on an item
\* that is not Blocked returns False.
C29_UnblockTarget ==
    [][\A t \in TaskIds :
          (last_call'.op = "unblock" /\ last_call'.task = t) =>
              IF tasks[t].status = BLOCKED
              THEN /\ last_call'.ret = TRUE
                   /\ tasks'[t].status =
                         IF \A d \in tasks[t].dependencies :
                               \E u \in TaskIds :
                                   /\ tasks[u].task_id = d
                                   /\ tasks[u].status = COMPLETED
                         THEN READY ELSE PENDING
              ELSE last_call'.ret = FALSE]_vars

\* C30: no assign_task call on a queued item raises a role's in-flight count
\* above max_concurrent_tasks (the counts being those of the queued items in
\* progress before the call).
C30_AssignWithinCeiling ==
    [][\A role \in AgentRole :
          (/\ LoadsCountInProgress
           /\ last_call'.op = "assign_task"
           /\ last_call'.task \in SeqToSet(task_queue)
           /\ agent_loads'[role] > agent_loads[role])
              => agent_loads'[role] <= max_concurrent_tasks]_vars

\* C31: within a round the outcomes are processed in the order in which the
\* executor results arrived: the results processed so far are the first
\* arrivals, in arrival order.
C31_ProcessedInArrivalOrder ==
    pc = "process" =>
        \A i \in 1..(next_result - 1) : ready_tasks[i] = arrived[i]

\* the position of a subscription among the subscribe calls made
SubscriptionOrder(pattern, index) ==
    CHOOSE k \in 1..Len(subscribed) :
        subscribed[k] = [pattern |-> pattern, index |-> index]

\* invocation i is the first one of its subscription for its event
FirstRun(i) ==
    \A h \in 1..(i - 1) :
        ~ /\ invocations[h].event = invocations[i].event
          /\ invocations[h].pattern = invocations[i].pattern
          /\ invocations[h].index = invocations[i].index

\* C32: for a single published event the matching callbacks run in the
\* order in which they were subscribed, whatever the patterns they were
\* subscribed under: of two callbacks, the one subscribed first runs first.
C32_SubscriptionOrder ==
    \A i, j \in 1..Len(invocations) :
        (/\ i < j
         /\ invocations[i].event = invocations[j].event
         /\ FirstRun(i)
         /\ FirstRun(j)) =>
            SubscriptionOrder(invocations[i].pattern, invocations[i].index)
                < SubscriptionOrder(invocations[j].pattern,
                                    invocations[j].index)

\* a round found no eligible item while items are still Pending
Stalled == ready_tasks = <<>> /\ \E t \in TaskIds : tasks[t].status = PENDING

\* C33: when a round finds zero eligible items while items are still
\* Pending, the session leaves the loop in that round and ends normally:
\* those items stay Pending and the summary reports success with
\* completed < total, a success rate below 1.0.
C33_StalledSessionEnds ==
    [][/\ (pc = "round" /\ Stalled') => (pc' = "finish" /\ tasks' = tasks)
       /\ (pc = "finish" /\ Stalled) =>
             /\ pc' = "done"
             /\ tasks' = tasks
             /\ project_result'.success
             /\ project_result'.tasks_completed < project_result'.total_tasks
             /\ project_result'.success_rate.num
                   < project_result'.success_rate.den]_vars

\* C33 witness: a session has ended after a round that found nothing
\* eligible, with an item whose dependency failed still Pending and fewer
\* items completed than the project has.
C33_Witness ==
    /\ pc = "done"
    /\ Stalled
    /\ rounds > 1
    /\ \E t \in TaskIds : tasks[t].status = FAILED
    /\ project_result.tasks_completed < project_result.total_tasks

\* C34: once stop_session has set the session's status to "stopped", the
\* status never changes again; execute_project does not overwrite it.
C34_StoppedStays ==
    [][session_info.status = "stopped" =>
          session_info'.status = "stopped"]_vars

\* the sum of the counts of a histogram
RECURSIVE SumOf(_)
SumOf(counts) ==
    IF DOMAIN counts = {} THEN 0
    ELSE LET s == CHOOSE x \in DOMAIN counts : TRUE
         IN  counts[s] + SumOf([x \in DOMAIN counts \ {s} |-> counts[x]])

\* C36: get_schedule_stats changes nothing (queue, items and agent_loads),
\* and in its snapshot total_tasks is the length of the queue and the sum of
\* the counts of the status histogram.
C36_StatsSnapshot ==
    [][last_call'.op = "get_schedule_stats" =>
          /\ task_queue' = task_queue
          /\ tasks' = tasks
          /\ agent_loads' = agent_loads
          /\ last_call'.stats.total_tasks = Len(task_queue)
          /\ SumOf(last_call'.stats.status_distribution)
                = last_call'.stats.total_tasks]_vars

\* C36 witness: the stats of test_get_schedule_stats, taken with one of two
\* queued items assigned: a total of 2, one pending, one in progress.
C36_Witness ==
    /\ last_call.op = "get_schedule_stats"
    /\ last_call.stats.total_tasks = 2
    /\ last_call.stats.status_distribution = (PENDING :> 1) @@ (IN_PROGRESS :> 1)
    /\ \E role \in AgentRole : last_call.stats.agent_loads[role] = 1

\* the executor calls in progress
Running == {t \in TaskIds : coroutine[t] = "running"}

\* C37: within a round at most MaxParallel executor calls are in progress at
\* the same time however many items are eligible, and every eligible item
\* of the round is executed before the round ends: while items wait, a call
\* is in progress or the semaphore is free, and the results are only
\* processed once each item of the round has been executed.
C37_BoundedParallelism ==
    /\ Cardinality(Running) <= MaxParallel
    /\ (pc = "gather" /\ \E t \in TaskIds : coroutine[t] = "waiting") =>
          (Running # {} \/ semaphore > 0)
    /\ pc = "process" =>
          /\ SeqToSet(arrived) = SeqToSet(ready_tasks)
          /\ \A t \in SeqToSet(ready_tasks) : coroutine[t] = "done"

\* C37 witness: a round found more than MaxParallel items eligible;
\* MaxParallel executor calls are in progress and an item waits.
C37_Witness ==
    /\ pc = "gather"
    /\ Len(ready_tasks) > MaxParallel
    /\ Cardinality(Running) = MaxParallel
    /\ \E t \in TaskIds : coroutine[t] = "waiting"

\* C38: get_recent_events(n) returns the min(n, len(history)) most recent
\* events of the history, in publish order with the newest last, and leaves
\* the history as it is.
C38_RecentEvents ==
    [][last_call'.op = "get_recent_events" =>
          LET n == Min(last_call'.task, Len(event_history))
          IN  /\ last_call'.out =
                    SubSeq(event_history, Len(event_history) - n + 1,
                           Len(event_history))
              /\ event_history' = event_history]_vars

\* C35: of several execute_project calls on one orchestrator, each hands to
\* the executor and counts as completed only items of its own project: the
\* items its get_ready_tasks calls made Ready and returned, the items it
\* created coroutines for and the items in its completed_tasks are all in
\* the list it enqueued.
C35_OwnItemsOnly ==
    /\ SeqToSet(ready_tasks) \subseteq SeqToSet(project_tasks)
    /\ SeqToSet(completed_tasks) \subseteq SeqToSet(project_tasks)
    /\ \A t \in TaskIds :
          coroutine[t] # "none" => t \in SeqToSet(project_tasks)

\* C35 witness: two execute_project calls are under way at once, the queue
\* holds the items of both, each call has an executor call in progress, and
\* the running one is in a later round with items of its own completed.
C35_Witness ==
    /\ pc = "gather"
    /\ other_session.pc = "gather"
    /\ Len(task_queue) = 2 * NumProjectTasks
    /\ \E t \in TaskIds : coroutine[t] = "running"
    /\ \E t \in TaskIds : other_session.coroutine[t] = "running"
    /\ rounds > 1
    /\ completed_tasks # <<>>

\* C39: get_load_order returns every registered plugin exactly once, each
\* after all of its registered dependencies, and initialize_all_plugins
\* initializes no plugin before a plugin it depends on.
DependenciesFirst(order) ==
    \A i, j \in 1..Len(order) :
        order[j] \in SeqToSet(plugins[order[i]].dependencies) => j < i

C39_LoadOrder ==
    /\ (last_call.op = "get_load_order" /\ last_call.ret)
        => /\ Len(last_call.out) = Len(plugins)
           /\ SeqToSet(last_call.out) = 1..Len(plugins)
           /\ DependenciesFirst(last_call.out)
    /\ last_call.op = "initialize_all_plugins"
        => DependenciesFirst(last_call.out)

\* C40: after any sequence of start_task, complete_task and fail_task calls
\* and of creating further agents, no agent has more current tasks than the
\* max_concurrent_tasks it was created with, and a start_task that was
\* accepted found its agent with fewer current tasks than that.
C40_WithinCapacity ==
    /\ \A a \in 1..Len(agents) :
          Len(agents[a].current_tasks) <= agents[a].configured
    /\ (last_call.op = "agent.start_task" /\ last_call.ret)
        => \A a \in last_call.arg :
              Len(agents[a].current_tasks) - 1 < agents[a].configured

====
